---- MODULE Spec2Model ----
(***************************************************************************)
(* Auto-Focus-Mode: the GUI controller (src/gui/controller.py).            *)
(*                                                                         *)
(*   Spec       FocusController.start_focus / stop_focus on the caller     *)
(*              (GUI) thread, interleaved with the run_daemon background   *)
(*              threads they create.                                       *)
(*   SpecLog    GuiLogStream.write / flush of one run's pair of relays.    *)
(*   SpecQuery  FocusController.get_recent_sessions over a stored table.   *)
(*                                                                         *)
(* Text is a sequence of tokens; LF and CR are the two control characters  *)
(* the code looks at.  A thread, the event loop it creates (line 112) and  *)
(* the task it creates (line 123) carry the thread's number; 0 is None.    *)
(***************************************************************************)
EXTENDS Integers, Sequences, FiniteSets

\* ------------------------------------------------------------------ bounds
MaxThreads == 2     \* background threads start_focus may create in one run of the model
MaxQueue == 1       \* the daemon's own output stops once the queue holds this many lines
MaxOps == 3         \* SpecLog: write/flush calls made on the pair of relays
MaxRows == 3        \* SpecQuery: records in the store
MaxTime == 3        \* SpecQuery: timestamps are minutes 1..MaxTime
MaxFaultRows == 1   \* SpecQuery: records in the store when the database access fails

Threads == 1..MaxThreads
Origins == {"stdout", "stderr"}
LF == "LF"
CR == "CR"

\* ------------------------------------------------------------ GuiLogStream
\* str.rstrip("\r"): every trailing carriage return goes.
RECURSIVE RStripCR(_)
RStripCR(s) ==
    IF s # <<>> /\ s[Len(s)] = CR THEN RStripCR(SubSeq(s, 1, Len(s) - 1)) ELSE s

HasLF(s) == \E i \in 1..Len(s) : s[i] = LF

FirstLF(s) == CHOOSE i \in 1..Len(s) : s[i] = LF /\ \A j \in 1..(i - 1) : s[j] # LF

\* "if" for the "while" of line 53: one line is taken per write.
SplitLines_Once(b) ==
    IF HasLF(b)
    THEN [lines |-> <<RStripCR(SubSeq(b, 1, FirstLF(b) - 1))>>,
          rest |-> SubSeq(b, FirstLF(b) + 1, Len(b))]
    ELSE [lines |-> <<>>, rest |-> b]

\* while "\n" in buffer: line, buffer = buffer.split("\n", 1); put(line.rstrip("\r"))
RECURSIVE SplitLines(_)
SplitLines(b) ==
    IF HasLF(b)
    THEN LET i == FirstLF(b)
             tl == SplitLines(SubSeq(b, i + 1, Len(b)))
         IN [lines |-> <<RStripCR(SubSeq(b, 1, i - 1))>> \o tl.lines, rest |-> tl.rest]
    ELSE [lines |-> <<>>, rest |-> b]

\* queue.Queue.put of one (stream_name, line) tuple: FIFO, at the tail.
QueuePut(q, o, line) == Append(q, <<o, line>>)

RECURSIVE PutLines(_, _, _)
PutLines(q, o, lines) ==
    IF lines = <<>> THEN q
    ELSE PutLines(QueuePut(q, o, Head(lines)), o, Tail(lines))

VARIABLES
    is_running, current_status, daemon_thread, daemon_loop, daemon_task,
    stop_event, log_queue,
    cpc,            \* where the caller (GUI) thread is: "idle" in its event loop, inside
                    \* stop_focus, or "returned": in the handler that made the call
    ret,            \* what the call returned to that handler
    tpc,            \* where each background thread is in run_daemon
    tstate,         \* each task: none, pending, cancelling, cancelled, done, failed
    tloop,          \* the loop each task was created on
    lstate,         \* each loop: none, open, running, closed
    lrunner,        \* the thread inside run_until_complete of each loop
    lcalls,         \* each loop's call_soon_threadsafe queue: tasks to cancel
    rl, rk,         \* the loop and task a thread passed to run_until_complete
    sys_stdout,     \* sys.stdout/sys.stderr: 0 the process's own, t thread t's relays
    orig,           \* original_stdout/original_stderr captured by each thread
    buf,            \* GuiLogStream._buffer of each relay
    blocked,        \* the environment is altered (sites blocked, focus policies on)
    unblock_n, apply_n,  \* calls of unblock_websites / apply_focus_policies in the current stop_focus
    stop_note,      \* what the current stop_focus met: [cancel, cleanup]
    sent, nops, lastop,      \* SpecLog: what each relay was given, and the calls made
    table, now, limit, schema, qpc, result,  \* SpecQuery: the store, the call, its result
    fault,          \* SpecQuery: what goes wrong with the database in this call
    rows,           \* SpecQuery: what fetchall() handed back
    qnote,          \* SpecQuery: what the call met: [second, raised]
    stats,          \* SpecQuery: the dict get_session_stats returned
    lock,           \* SpecRace: who holds GuiLogStream._lock: "free", "w", "f"
    wpc, fpc,       \* SpecRace: where the writing and the flushing thread are
    wmsg,           \* SpecRace: the message of the write() under way
    wloc,           \* SpecRace: the writing thread's operand stack: a value read from _buffer
    papp, config,   \* SpecPolicy: the arguments of check_app_category
    category,       \* SpecPolicy: what it returned
    ppc             \* SpecPolicy: call, classified, raised, logged

cvars == <<is_running, current_status, daemon_thread, daemon_loop, daemon_task, stop_event>>
tvars == <<tpc, tstate, tloop, lstate, lrunner, lcalls, rl, rk>>
svars == <<sys_stdout, orig, buf, log_queue>>
evars == <<blocked, unblock_n, apply_n, stop_note>>
lvars == <<sent, nops, lastop>>
qvars == <<table, now, limit, schema, qpc, result, fault, rows, qnote, stats>>
rvars == <<lock, wpc, fpc, wmsg, wloc>>
pvars == <<papp, config, category, ppc>>
xvars == <<lvars, qvars, rvars, pvars>>
vars == <<cvars, tvars, svars, evars, cpc, ret, xvars>>

\* ----------------------------------------------- relays over the shared queue
\* A relay is <<t, o>>: thread t's GuiLogStream for origin o; its
\* _original_stream is orig[t] (0: the process's own stream, which keeps
\* nothing; u: thread u's relay of the same origin).  st = [buf, q] is the
\* buffers and the queue an operation works on.
\* Line 64 left out: the buffer is not emptied.
RECURSIVE StreamFlush_KeepsBuffer(_, _, _)
StreamFlush_KeepsBuffer(t, o, st) ==
    IF t = 0 THEN st
    ELSE LET st1 == StreamFlush_KeepsBuffer(orig[t], o, st)
             b == st1.buf[<<t, o>>]
         IN IF b # <<>>
            THEN [buf |-> st1.buf, q |-> QueuePut(st1.q, o, RStripCR(b))]
            ELSE st1

RECURSIVE StreamFlush(_, _, _)
StreamFlush(t, o, st) ==
    IF t = 0 THEN st
    ELSE LET st1 == StreamFlush(orig[t], o, st)        \* line 61
             b == st1.buf[<<t, o>>]
         IN IF b # <<>>                                \* line 62
            THEN [buf |-> [st1.buf EXCEPT ![<<t, o>>] = <<>>],
                  q |-> QueuePut(st1.q, o, RStripCR(b))]
            ELSE st1

RECURSIVE StreamWriteTo(_, _, _, _)
StreamWriteTo(t, o, msg, st) ==
    IF t = 0 \/ msg = <<>> THEN st                     \* lines 45-46
    ELSE LET st1 == StreamFlush(orig[t], o,            \* lines 49-50
                        StreamWriteTo(orig[t], o, msg, st))
             sp == SplitLines(st1.buf[<<t, o>>] \o msg)   \* lines 52-55
         IN [buf |-> [st1.buf EXCEPT ![<<t, o>>] = sp.rest],
             q |-> PutLines(st1.q, o, sp.lines)]

\* print(text): sys.stdout.write(text), then sys.stdout.write("\n").
PrintTo(s, text, st) ==
    StreamWriteTo(s, "stdout", <<LF>>, StreamWriteTo(s, "stdout", <<text>>, st))

Streams == [buf |-> buf, q |-> log_queue]

\* print(text) by whoever runs now: it goes to the sys.stdout of this moment.
Say(text) ==
    LET st == PrintTo(sys_stdout, text, Streams)
    IN buf' = st.buf /\ log_queue' = st.q

\* ------------------------------------------------------------ FocusController
Alive(t) == t # 0 /\ tpc[t] \notin {"none", "unstarted", "dead", "crashed"}

\* What a call hands to its caller: a boolean, or (exc) an exception.
Returned(op, val) == [op |-> op, val |-> val, exc |-> FALSE]

NoCall == [op |-> "none", val |-> FALSE, exc |-> FALSE]

NoNote == [cancel |-> "none", cleanup |-> "none"]

\* The relays and the query are not in use in this specification.
LogIdle ==
    sent = [o \in Origins |-> <<>>] /\ nops = 0 /\ lastop = [kind |-> "none", o |-> "stdout"]

NoQuery == [second |-> FALSE, raised |-> FALSE]
NoStats == [total_sessions |-> 0, total_time_minutes |-> 0,
            productive_count |-> 0, distracted_count |-> 0]

RaceIdle ==
    lock = "free" /\ wpc = "idle" /\ fpc = "idle" /\ wmsg = <<>> /\ wloc = <<>>

NoConfig == [productive_apps |-> {}, distracting_apps |-> {}, has |-> {}]

PolicyIdle ==
    papp = "none" /\ config = NoConfig /\ category = "none" /\ ppc = "none"

QueryIdle ==
    /\ table = <<>> /\ now = 0 /\ limit = 0 /\ schema = "none"
    /\ qpc = "none" /\ result = <<>>
    /\ fault = "none" /\ rows = <<>> /\ qnote = NoQuery /\ stats = NoStats

\* __init__
ControllerInit ==
    /\ is_running = FALSE
    /\ daemon_thread = 0 /\ daemon_loop = 0 /\ daemon_task = 0
    /\ stop_event = FALSE
    /\ current_status = "Idle"
    /\ log_queue = <<>>
    /\ cpc = "idle"
    /\ ret = NoCall
    /\ tpc = [t \in Threads |-> "none"]
    /\ tstate = [t \in Threads |-> "none"]
    /\ tloop = [t \in Threads |-> 0]
    /\ lstate = [t \in Threads |-> "none"]
    /\ lrunner = [t \in Threads |-> 0]
    /\ lcalls = [t \in Threads |-> {}]
    /\ rl = [t \in Threads |-> 0]
    /\ rk = [t \in Threads |-> 0]
    /\ sys_stdout = 0
    /\ orig = [t \in Threads |-> 0]
    /\ buf = [r \in Threads \X Origins |-> <<>>]
    /\ blocked = FALSE
    /\ unblock_n = 0 /\ apply_n = 0
    /\ stop_note = NoNote

Init == ControllerInit /\ LogIdle /\ QueryIdle /\ RaceIdle /\ PolicyIdle

\* The guard of line 97 left out.
StartRejected_NoGuard == FALSE

\* line 97: if self.is_running: return False
StartRejected == is_running

\* Line 146 left out.
StartSucceeds_StatusNotSet ==
    /\ is_running' = TRUE
    /\ UNCHANGED current_status
    /\ buf' = buf
    /\ log_queue' = <<>>
    /\ ret' = Returned("start", TRUE)

\* lines 145-147
StartSucceeds ==
    /\ is_running' = TRUE
    /\ current_status' = "Focus Active"
    /\ buf' = buf
    /\ log_queue' = <<>>
    /\ ret' = Returned("start", TRUE)

\* The try of line 100 left out: the failure of Thread.start() reaches the caller.
LaunchFailed_Propagates ==
    /\ UNCHANGED <<is_running, current_status, buf>>
    /\ log_queue' = <<>>
    /\ ret' = [op |-> "start", val |-> FALSE, exc |-> TRUE]

\* lines 148-150: Thread.start() raised; the handler prints and returns False.
LaunchFailed ==
    /\ UNCHANGED <<is_running, current_status>>
    /\ LET st == PrintTo(sys_stdout, "[GUI] Failed to start focus mode",
                         [buf |-> buf, q |-> <<>>])
       IN buf' = st.buf /\ log_queue' = st.q
    /\ ret' = Returned("start", FALSE)

\* start_focus(): the stop event is cleared and the queue emptied (101-108), the
\* thread is created and started (143-144).  launch_ok = FALSE is start() raising.
StartFocus ==
    /\ cpc = "idle"
    /\ cpc' = "returned"
    /\ IF StartRejected
       THEN /\ ret' = Returned("start", FALSE)
            /\ UNCHANGED <<cvars, tvars, svars, evars>>
       ELSE \E t \in Threads, launch_ok \in BOOLEAN :
            /\ tpc[t] = "none" /\ \A u \in 1..(t - 1) : tpc[u] # "none"
            /\ stop_event' = FALSE
            /\ daemon_thread' = t
            /\ IF launch_ok
               THEN tpc' = [tpc EXCEPT ![t] = "spawned"] /\ StartSucceeds
               ELSE tpc' = [tpc EXCEPT ![t] = "unstarted"] /\ LaunchFailed
            /\ UNCHANGED <<daemon_loop, daemon_task, tstate, tloop, lstate, lrunner,
                           lcalls, rl, rk, sys_stdout, orig, evars>>
    /\ UNCHANGED xvars

\* The guard of line 159 left out.
StopRejected_NoGuard == FALSE

\* line 159: if not self.is_running: return False
StopRejected == ~is_running

\* line 167: if self.daemon_loop and self.daemon_task
HandlesSet == daemon_loop # 0 /\ daemon_task # 0

\* stop_focus(), lines 159-167: the guard, the stop event, the test of the handles.
StopBegin ==
    /\ cpc = "idle"
    /\ IF StopRejected
       THEN /\ ret' = Returned("stop", FALSE)
            /\ cpc' = "returned"
            /\ UNCHANGED <<cvars, tvars, svars, evars>>
       ELSE /\ stop_event' = TRUE
            /\ stop_note' = [stop_note EXCEPT !.cancel = IF HandlesSet THEN "testing" ELSE "skipped"]
            /\ cpc' = IF HandlesSet THEN "stop_cancel" ELSE "stop_cleanup"
            /\ UNCHANGED <<is_running, current_status, daemon_thread, daemon_loop,
                           daemon_task, tvars, svars, blocked, unblock_n, apply_n, ret>>
    /\ UNCHANGED xvars

\* The inner try of line 168 left out: the failure is taken by the handler of
\* lines 189-193, past the cleanup.
CancelRaised_OuterHandler ==
    /\ Say("[GUI] Failed to stop focus mode")
    /\ stop_note' = [stop_note EXCEPT !.cancel = "raised"]
    /\ is_running' = FALSE /\ current_status' = "Idle"
    /\ cpc' = "returned"
    /\ ret' = Returned("stop", FALSE)
    /\ UNCHANGED lcalls

\* lines 171-172: the scheduling raised; the handler prints and stop_focus goes on.
CancelRaised ==
    /\ Say("[GUI] Error cancelling task")
    /\ stop_note' = [stop_note EXCEPT !.cancel = "raised"]
    /\ cpc' = "stop_cleanup"
    /\ UNCHANGED <<is_running, current_status, ret, lcalls>>

\* line 170: self.daemon_loop.call_soon_threadsafe(self.daemon_task.cancel), the
\* handles read again: a None handle or a closed loop raises.
StopCancel ==
    /\ cpc = "stop_cancel"
    /\ IF daemon_loop = 0 \/ daemon_task = 0 \/ lstate[daemon_loop] = "closed"
       THEN CancelRaised
       ELSE /\ lcalls' = [lcalls EXCEPT ![daemon_loop] = @ \cup {daemon_task}]
            /\ stop_note' = [stop_note EXCEPT !.cancel = "scheduled"]
            /\ cpc' = "stop_cleanup"
            /\ UNCHANGED <<is_running, current_status, ret, buf, log_queue>>
    /\ UNCHANGED <<daemon_thread, daemon_loop, daemon_task, stop_event, tpc, tstate, tloop,
                   lstate, lrunner, rl, rk, sys_stdout, orig, blocked, unblock_n, apply_n>>
    /\ UNCHANGED xvars

\* lines 175-179: unblock_websites(), then apply_focus_policies("productive");
\* either may raise (ur, ar), the second is not reached when the first does,
\* and the handler at 178 prints.
Cleanup(ur, ar) ==
    /\ unblock_n' = unblock_n + 1
    /\ apply_n' = IF ur THEN apply_n ELSE apply_n + 1
    /\ blocked' = IF ur \/ ar THEN blocked ELSE FALSE
    /\ IF ur \/ ar
       THEN Say("[GUI] Warning: Error during cleanup")
       ELSE UNCHANGED <<buf, log_queue>>
    /\ stop_note' = [stop_note EXCEPT !.cleanup =
                        IF ur THEN "unblock_raised" ELSE IF ar THEN "apply_raised" ELSE "ok"]

\* Line 182 left out.
MarkIdle_StatusKept == is_running' = FALSE /\ UNCHANGED current_status

\* lines 181-182
MarkIdle == is_running' = FALSE /\ current_status' = "Idle"

StopCleanup ==
    /\ cpc = "stop_cleanup"
    /\ \E ur, ar \in BOOLEAN : (ur => ~ar) /\ Cleanup(ur, ar)
    /\ MarkIdle
    /\ cpc' = "stop_join"
    /\ UNCHANGED <<daemon_thread, daemon_loop, daemon_task, stop_event, tvars,
                   sys_stdout, orig, ret>>
    /\ UNCHANGED xvars

\* Line 186 as join() without a timeout: it ends only when the thread has exited.
StopJoin_WaitsForExit ==
    /\ cpc = "stop_join"
    /\ ~Alive(daemon_thread)
    /\ cpc' = "returned"
    /\ ret' = Returned("stop", TRUE)
    /\ UNCHANGED <<cvars, tvars, svars, evars>>
    /\ UNCHANGED xvars

\* lines 185-188: join(timeout=3.0) ends when the thread has exited or the
\* timeout has elapsed, whichever comes first; then return True.
StopJoin ==
    /\ cpc = "stop_join"
    /\ cpc' = "returned"
    /\ ret' = Returned("stop", TRUE)
    /\ UNCHANGED <<cvars, tvars, svars, evars>>
    /\ UNCHANGED xvars

\* get_status()
get_status == current_status

\* gui_main.py on_start_clicked / on_stop_clicked: the handler has shown the
\* outcome and read get_status(); the caller is back in its event loop.
Resume ==
    /\ cpc = "returned"
    /\ cpc' = "idle"
    /\ ret' = NoCall
    /\ unblock_n' = 0 /\ apply_n' = 0 /\ stop_note' = NoNote
    /\ UNCHANGED <<cvars, tvars, svars, blocked>>
    /\ UNCHANGED xvars

\* gui_main.py drain_log_queue, on the caller thread: get_nowait until Empty.
Drain ==
    /\ cpc = "idle"
    /\ log_queue # <<>>
    /\ log_queue' = <<>>
    /\ UNCHANGED <<cvars, tvars, sys_stdout, orig, buf, evars, cpc, ret>>
    /\ UNCHANGED xvars

\* ------------------------------------------------------------------ run_daemon
\* An exception that leaves run_daemon ends the thread; threading's excepthook
\* writes the traceback to the sys.stderr of that moment.
Traceback(st) == StreamWriteTo(sys_stdout, "stderr", <<"Traceback", LF>>, st)

\* lines 112-120: the new loop is published, the relays are installed.
T_Setup(t) ==
    /\ tpc[t] = "spawned"
    /\ tpc' = [tpc EXCEPT ![t] = "setup"]
    /\ lstate' = [lstate EXCEPT ![t] = "open"]
    /\ daemon_loop' = t
    /\ orig' = [orig EXCEPT ![t] = sys_stdout]
    /\ sys_stdout' = t
    /\ UNCHANGED <<is_running, current_status, daemon_thread, daemon_task, stop_event,
                   tstate, tloop, lrunner, lcalls, rl, rk, buf, log_queue, evars, cpc, ret>>
    /\ UNCHANGED xvars

\* line 123: self.daemon_task = self.daemon_loop.create_task(focus_daemon());
\* self.daemon_loop is read again: None or a closed loop raises into line 127.
T_CreateTask(t) ==
    /\ tpc[t] = "setup"
    /\ IF daemon_loop = 0 \/ lstate[daemon_loop] = "closed"
       THEN /\ Say("[GUI] Daemon error")
            /\ tpc' = [tpc EXCEPT ![t] = "finally"]
            /\ UNCHANGED <<daemon_task, tstate, tloop>>
       ELSE /\ tstate' = [tstate EXCEPT ![t] = "pending"]
            /\ tloop' = [tloop EXCEPT ![t] = daemon_loop]
            /\ daemon_task' = t
            /\ tpc' = [tpc EXCEPT ![t] = "created"]
            /\ UNCHANGED <<buf, log_queue>>
    /\ UNCHANGED <<is_running, current_status, daemon_thread, daemon_loop, stop_event,
                   lstate, lrunner, lcalls, rl, rk, sys_stdout, orig, evars, cpc, ret>>
    /\ UNCHANGED xvars

\* line 124, entering self.daemon_loop.run_until_complete(self.daemon_task): both
\* handles are read again.  None, a closed loop, a loop already running in
\* another thread, or a task of another loop raise into line 127.
CanRun(l, k) ==
    /\ l # 0 /\ k # 0
    /\ lstate[l] = "open"
    /\ tloop[k] = l

T_RunLoop(t) ==
    /\ tpc[t] = "created"
    /\ IF CanRun(daemon_loop, daemon_task)
       THEN /\ lstate' = [lstate EXCEPT ![daemon_loop] = "running"]
            /\ lrunner' = [lrunner EXCEPT ![daemon_loop] = t]
            /\ rl' = [rl EXCEPT ![t] = daemon_loop]
            /\ rk' = [rk EXCEPT ![t] = daemon_task]
            /\ tpc' = [tpc EXCEPT ![t] = "running"]
            /\ UNCHANGED <<buf, log_queue>>
       ELSE /\ Say("[GUI] Daemon error")
            /\ tpc' = [tpc EXCEPT ![t] = "finally"]
            /\ UNCHANGED <<lstate, lrunner, rl, rk>>
    /\ UNCHANGED <<cvars, tstate, tloop, lcalls, sys_stdout, orig, evars, cpc, ret>>
    /\ UNCHANGED xvars

\* The running loop takes one call_soon_threadsafe callback: task k's cancel().
CancelTask(ts, k) == [ts EXCEPT ![k] = IF @ = "pending" THEN "cancelling" ELSE @]

L_Callback(l, k) ==
    /\ lstate[l] = "running"
    /\ k \in lcalls[l]
    /\ lcalls' = [lcalls EXCEPT ![l] = @ \ {k}]
    /\ tstate' = CancelTask(tstate, k)
    /\ UNCHANGED <<cvars, tpc, tloop, lstate, lrunner, rl, rk, svars, evars, cpc, ret>>
    /\ UNCHANGED xvars

\* focus_daemon (main.py) between two of its suspension points, on the loop that
\* runs it: it prints, it alters the environment, it returns, it raises; a
\* task whose cancel() was called gets CancelledError at its next resumption.
OnLoop(k) == tstate[k] \in {"pending", "cancelling"} /\ lstate[tloop[k]] = "running"

TaskOutput(k) ==
    /\ OnLoop(k) /\ tstate[k] = "pending"
    /\ Len(log_queue) < MaxQueue
    /\ Say("daemon")
    /\ UNCHANGED <<cvars, tvars, sys_stdout, orig, evars, cpc, ret>>
    /\ UNCHANGED xvars

TaskAlter(k) ==
    /\ OnLoop(k) /\ tstate[k] = "pending"
    /\ ~blocked
    /\ blocked' = TRUE
    /\ UNCHANGED <<cvars, tvars, svars, unblock_n, apply_n, stop_note, cpc, ret>>
    /\ UNCHANGED xvars

TaskEnds(k, how) ==
    /\ OnLoop(k)
    /\ how = "cancelled" <=> tstate[k] = "cancelling"
    /\ tstate' = [tstate EXCEPT ![k] = how]
    /\ UNCHANGED <<cvars, tpc, tloop, lstate, lrunner, lcalls, rl, rk, svars, evars, cpc, ret>>
    /\ UNCHANGED xvars

\* line 124 returns or raises once its task is over; lines 125-128.
T_RunReturns(t) ==
    /\ tpc[t] = "running"
    /\ tstate[rk[t]] \in {"done", "failed", "cancelled"}
    /\ lstate' = [lstate EXCEPT ![rl[t]] = "open"]
    /\ lrunner' = [lrunner EXCEPT ![rl[t]] = 0]
    /\ tpc' = [tpc EXCEPT ![t] = "finally"]
    /\ IF tstate[rk[t]] = "cancelled" THEN Say("[GUI] Daemon stopped")
       ELSE IF tstate[rk[t]] = "failed" THEN Say("[GUI] Daemon error")
       ELSE UNCHANGED <<buf, log_queue>>
    /\ rl' = [rl EXCEPT ![t] = 0]
    /\ rk' = [rk EXCEPT ![t] = 0]
    /\ UNCHANGED <<cvars, tstate, tloop, lcalls, sys_stdout, orig, evars, cpc, ret>>
    /\ UNCHANGED xvars

\* lines 130-138.  Both relays are flushed and the captured streams put back;
\* then the tasks left on the loop self.daemon_loop names now are cancelled
\* and the loop is run until they have settled.  all_tasks(None) raises; so
\* does run_until_complete on a closed or running loop, or on the empty
\* gather(), a future of this thread's own loop, given to another loop.
Unsettled(l) == {k \in Threads : tloop[k] = l /\ tstate[k] \in {"pending", "cancelling"}}

RECURSIVE CancelAll(_, _)
CancelAll(ts, ks) ==
    IF ks = {} THEN ts
    ELSE LET k == CHOOSE x \in ks : TRUE IN CancelAll(CancelTask(ts, k), ks \ {k})

SettleAll(ts, ks) == [k \in Threads |-> IF k \in ks THEN "cancelled" ELSE ts[k]]

Flushed(t) == StreamFlush(t, "stderr", StreamFlush(t, "stdout", Streams))

T_Finally(t) ==
    /\ tpc[t] = "finally"
    /\ sys_stdout' = orig[t]
    /\ LET l == daemon_loop
           p == IF l = 0 THEN {} ELSE Unsettled(l)
       IN IF l # 0 /\ lstate[l] = "open" /\ (p # {} \/ l = t)
          THEN /\ tstate' = SettleAll(CancelAll(tstate, lcalls[l]), p)
               /\ lcalls' = [lcalls EXCEPT ![l] = {}]
               /\ tpc' = [tpc EXCEPT ![t] = "fin_close"]
               /\ buf' = Flushed(t).buf /\ log_queue' = Flushed(t).q
          ELSE /\ tstate' = CancelAll(tstate, p)
               /\ tpc' = [tpc EXCEPT ![t] = "crashed"]
               /\ LET st == StreamWriteTo(orig[t], "stderr", <<"Traceback", LF>>, Flushed(t))
                  IN buf' = st.buf /\ log_queue' = st.q
               /\ UNCHANGED lcalls
    /\ UNCHANGED <<cvars, tloop, lstate, lrunner, rl, rk, orig, evars, cpc, ret>>
    /\ UNCHANGED xvars

\* line 139: self.daemon_loop.close(); None or a running loop raises.
T_Close(t) ==
    /\ tpc[t] = "fin_close"
    /\ IF daemon_loop # 0 /\ lstate[daemon_loop] # "running"
       THEN /\ lstate' = [lstate EXCEPT ![daemon_loop] = "closed"]
            /\ tpc' = [tpc EXCEPT ![t] = "fin_clear"]
            /\ UNCHANGED <<buf, log_queue>>
       ELSE /\ tpc' = [tpc EXCEPT ![t] = "crashed"]
            /\ LET st == Traceback(Streams) IN buf' = st.buf /\ log_queue' = st.q
            /\ UNCHANGED lstate
    /\ UNCHANGED <<cvars, tstate, tloop, lrunner, lcalls, rl, rk, sys_stdout, orig, evars, cpc, ret>>
    /\ UNCHANGED xvars

\* Lines 140-141 followed by the controller being marked Idle.
T_Clear_MarksIdle(t) ==
    /\ tpc[t] = "fin_clear"
    /\ daemon_loop' = 0
    /\ daemon_task' = 0
    /\ is_running' = FALSE
    /\ current_status' = "Idle"
    /\ tpc' = [tpc EXCEPT ![t] = "dead"]
    /\ UNCHANGED <<daemon_thread, stop_event, tstate, tloop,
                   lstate, lrunner, lcalls, rl, rk, svars, evars, cpc, ret>>
    /\ UNCHANGED xvars

\* lines 140-141
T_Clear(t) ==
    /\ tpc[t] = "fin_clear"
    /\ daemon_loop' = 0
    /\ daemon_task' = 0
    /\ tpc' = [tpc EXCEPT ![t] = "dead"]
    /\ UNCHANGED <<is_running, current_status, daemon_thread, stop_event, tstate, tloop,
                   lstate, lrunner, lcalls, rl, rk, svars, evars, cpc, ret>>
    /\ UNCHANGED xvars

Background ==
    \/ \E t \in Threads : T_Setup(t)
    \/ \E t \in Threads : T_CreateTask(t)
    \/ \E t \in Threads : T_RunLoop(t)
    \/ \E l, k \in Threads : L_Callback(l, k)
    \/ \E k \in Threads : TaskOutput(k)
    \/ \E k \in Threads : TaskAlter(k)
    \/ \E k \in Threads, how \in {"done", "failed", "cancelled"} : TaskEnds(k, how)
    \/ \E t \in Threads : T_RunReturns(t)
    \/ \E t \in Threads : T_Finally(t)
    \/ \E t \in Threads : T_Close(t)
    \/ \E t \in Threads : T_Clear(t)

Next ==
    \/ StartFocus
    \/ StopBegin
    \/ StopCancel
    \/ StopCleanup
    \/ StopJoin
    \/ Resume
    \/ Drain
    \/ Background

Spec == Init /\ [][Next]_vars

\* ------------------------------------------------- SpecLog: one run's relays
\* gui_stdout and gui_stderr of thread 1 over the process's own streams
\* (lines 117-118), written and flushed by their one producer.
FL == "FLUSH"       \* in sent: a flush() call was made here

Messages ==
    { <<>>, <<"a">>, <<"a", "b">>, <<LF>>, <<CR>>, <<"a", LF>>, <<"a", CR>>, <<CR, LF>>,
      <<"a", CR, LF>>, <<LF, "b">>, <<"a", LF, "b", LF>>, <<"a", CR, CR, LF, "b">> }

\* GuiLogStream.__init__ (36-42) of both relays.
LogInit ==
    /\ ControllerInit
    /\ sent = [o \in Origins |-> <<>>] /\ nops = 0 /\ lastop = [kind |-> "none", o |-> "stdout"]
    /\ QueryIdle /\ RaceIdle /\ PolicyIdle

\* write(message)
LogWrite(o, msg) ==
    /\ nops < MaxOps
    /\ LET st == StreamWriteTo(1, o, msg, Streams)
       IN buf' = st.buf /\ log_queue' = st.q
    /\ sent' = [sent EXCEPT ![o] = @ \o msg]
    /\ nops' = nops + 1
    /\ lastop' = [kind |-> "write", o |-> o]
    /\ UNCHANGED <<cvars, tvars, sys_stdout, orig, evars, cpc, ret, qvars, rvars, pvars>>

\* flush()
LogFlush(o) ==
    /\ nops < MaxOps
    /\ LET st == StreamFlush(1, o, Streams)
       IN buf' = st.buf /\ log_queue' = st.q
    /\ sent' = [sent EXCEPT ![o] = Append(@, FL)]
    /\ nops' = nops + 1
    /\ lastop' = [kind |-> "flush", o |-> o]
    /\ UNCHANGED <<cvars, tvars, sys_stdout, orig, evars, cpc, ret, qvars, rvars, pvars>>

LogNext ==
    \/ \E o \in Origins, msg \in Messages : LogWrite(o, msg)
    \/ \E o \in Origins : LogFlush(o)

SpecLog == LogInit /\ [][LogNext]_vars

\* ------------------------------- SpecRace: write() and flush() on two threads
\* One relay, gui_stdout of thread 1 over the process's own stream, written
\* by one thread while another flushes it.  Each step is one read or one
\* assignment of self._buffer, one put, or one operation on self._lock.
Relay == <<1, "stdout">>

RaceInit ==
    /\ ControllerInit /\ LogIdle /\ QueryIdle /\ RaceIdle /\ PolicyIdle

RaceFrame == UNCHANGED <<cvars, tvars, sys_stdout, orig, evars, cpc, ret, lastop, qvars, pvars>>

\* Lock.acquire() goes through when nobody holds the lock.
CanAcquire_NoLock == TRUE

CanAcquire == lock = "free"

\* Lines 45-46: write(message) called; an empty message returns 0 at once.
W_Call(msg) ==
    /\ wpc = "idle" /\ nops < MaxOps
    /\ nops' = nops + 1
    /\ IF msg = <<>> THEN UNCHANGED <<wpc, wmsg>>
       ELSE wpc' = "acquire" /\ wmsg' = msg
    /\ UNCHANGED <<buf, log_queue, sent, lock, fpc, wloc>>
    /\ RaceFrame

\* Line 48: with self._lock.
W_Acquire ==
    /\ wpc = "acquire" /\ CanAcquire
    /\ lock' = "w"
    /\ wpc' = "forward"
    /\ sent' = [sent EXCEPT !["stdout"] = @ \o wmsg]
    /\ UNCHANGED <<buf, log_queue, nops, fpc, wmsg, wloc>>
    /\ RaceFrame

\* Lines 49-50: the original stream is written and flushed; then line 52
\* reads self._buffer and adds the message to what it read.
W_Load ==
    /\ wpc = "forward"
    /\ wloc' = buf[Relay] \o wmsg
    /\ wpc' = "store"
    /\ UNCHANGED <<buf, log_queue, sent, nops, lock, fpc, wmsg>>
    /\ RaceFrame

\* Line 52: the sum is assigned to self._buffer.
W_Store ==
    /\ wpc = "store"
    /\ buf' = [buf EXCEPT ![Relay] = wloc]
    /\ wpc' = "test"
    /\ UNCHANGED <<log_queue, sent, nops, lock, fpc, wmsg, wloc>>
    /\ RaceFrame

\* Line 53: while "\n" in self._buffer; after the loop the lock is released
\* and write returns (line 57).
W_Test ==
    /\ wpc = "test"
    /\ IF HasLF(buf[Relay]) THEN wpc' = "split" /\ UNCHANGED lock
       ELSE wpc' = "idle" /\ lock' = (IF lock = "w" THEN "free" ELSE lock)
    /\ UNCHANGED <<buf, log_queue, sent, nops, fpc, wmsg, wloc>>
    /\ RaceFrame

\* Line 54, right-hand side: self._buffer.split("\n", 1) of the buffer as it
\* is now.  Without a newline in it the unpacking raises ValueError, which
\* leaves write() through the with statement.
W_Split ==
    /\ wpc = "split"
    /\ IF HasLF(buf[Relay])
       THEN wloc' = buf[Relay] /\ wpc' = "assign" /\ UNCHANGED lock
       ELSE wloc' = <<>> /\ wpc' = "idle" /\ lock' = (IF lock = "w" THEN "free" ELSE lock)
    /\ UNCHANGED <<buf, log_queue, sent, nops, fpc, wmsg>>
    /\ RaceFrame

\* Line 54, left-hand side: line and self._buffer are assigned.
W_Assign ==
    /\ wpc = "assign"
    /\ buf' = [buf EXCEPT ![Relay] = SubSeq(wloc, FirstLF(wloc) + 1, Len(wloc))]
    /\ wloc' = SubSeq(wloc, 1, FirstLF(wloc) - 1)
    /\ wpc' = "put"
    /\ UNCHANGED <<log_queue, sent, nops, lock, fpc, wmsg>>
    /\ RaceFrame

\* Line 55: self._queue.put((self._stream_name, line.rstrip("\r"))).
W_Put ==
    /\ wpc = "put"
    /\ log_queue' = QueuePut(log_queue, "stdout", RStripCR(wloc))
    /\ wpc' = "test"
    /\ UNCHANGED <<buf, sent, nops, lock, fpc, wmsg, wloc>>
    /\ RaceFrame

\* Line 59: flush() called.
F_Call ==
    /\ fpc = "idle" /\ nops < MaxOps
    /\ nops' = nops + 1
    /\ fpc' = "acquire"
    /\ UNCHANGED <<buf, log_queue, sent, lock, wpc, wmsg, wloc>>
    /\ RaceFrame

\* Line 60: with self._lock.
F_Acquire ==
    /\ fpc = "acquire" /\ CanAcquire
    /\ lock' = "f"
    /\ fpc' = "test"
    /\ sent' = [sent EXCEPT !["stdout"] = Append(@, FL)]
    /\ UNCHANGED <<buf, log_queue, nops, wpc, wmsg, wloc>>
    /\ RaceFrame

\* Lines 61-62: the original stream is flushed; if self._buffer.  With an
\* empty buffer the lock is released and flush returns.
F_Test ==
    /\ fpc = "test"
    /\ IF buf[Relay] # <<>> THEN fpc' = "put" /\ UNCHANGED lock
       ELSE fpc' = "idle" /\ lock' = (IF lock = "f" THEN "free" ELSE lock)
    /\ UNCHANGED <<buf, log_queue, sent, nops, wpc, wmsg, wloc>>
    /\ RaceFrame

\* Line 63: self._queue.put((self._stream_name, self._buffer.rstrip("\r"))).
F_Put ==
    /\ fpc = "put"
    /\ log_queue' = QueuePut(log_queue, "stdout", RStripCR(buf[Relay]))
    /\ fpc' = "clear"
    /\ UNCHANGED <<buf, sent, nops, lock, wpc, wmsg, wloc>>
    /\ RaceFrame

\* Line 64: self._buffer = ""; the lock is released.
F_Clear ==
    /\ fpc = "clear"
    /\ buf' = [buf EXCEPT ![Relay] = <<>>]
    /\ fpc' = "idle"
    /\ lock' = (IF lock = "f" THEN "free" ELSE lock)
    /\ UNCHANGED <<log_queue, sent, nops, wpc, wmsg, wloc>>
    /\ RaceFrame

RaceNext ==
    \/ \E msg \in Messages : W_Call(msg)
    \/ W_Acquire
    \/ W_Load
    \/ W_Store
    \/ W_Test
    \/ W_Split
    \/ W_Assign
    \/ W_Put
    \/ F_Call
    \/ F_Acquire
    \/ F_Test
    \/ F_Put
    \/ F_Clear

SpecRace == RaceInit /\ [][RaceNext]_vars

\* ------------------------------------------- SpecQuery: get_recent_sessions
\* A stored record is [app, mode, ts].  ts.kind is "ok" for a text strptime
\* accepts, "bad" for a text it rejects (ValueError) and "null" for a value
\* that is no text (TypeError); ts.key is where the value sorts, and for an
\* "ok" timestamp its time in minutes.  A value that is no text sorts below
\* every text.  The i-th record stored has subject Subjects[i].
Subjects == <<"A", "B", "C", "D">>
Modes == {"productive", "distracted"}
Stamps == [key : 1..MaxTime, kind : {"ok", "bad"}] \cup {[key |-> 0, kind |-> "null"]}
Limits == {-1, 0, 1, 2, 50}
StatsLimit == 1000
\* The table the database holds: focus_log (whether or not focus_sessions is
\* there too), focus_sessions only, or neither.
Schemas == {"focus_log", "focus_sessions", "none"}
\* What goes wrong during the call: nothing; sqlite3.connect raises; the first
\* execute raises an OperationalError that is not about a missing table
\* (a locked database, a missing column); the first execute raises another
\* sqlite3 error (the file is not a database); the second execute raises.
Faults == {"none", "connect", "first_operational", "first_database", "second"}

Tables ==
    UNION { { [i \in 1..n |-> [app |-> Subjects[i], mode |-> f[i].mode, ts |-> f[i].ts]] :
                f \in [1..n -> [mode : Modes, ts : Stamps]] } : n \in 0..MaxRows }

QueryInit ==
    /\ ControllerInit /\ LogIdle /\ RaceIdle /\ PolicyIdle
    /\ table \in Tables
    /\ now \in {MaxTime, MaxTime + 2}
    /\ limit \in Limits
    /\ schema \in Schemas
    /\ fault \in Faults
    /\ schema = "none" => table = <<>>
    /\ fault # "none" => Len(table) <= MaxFaultRows
    /\ qpc = "call"
    /\ result = <<>> /\ rows = <<>> /\ qnote = NoQuery /\ stats = NoStats

\* ORDER BY timestamp DESC: the orders in which the query may hand the records
\* back (records of equal timestamp in either order).
Orders(t) ==
    { p \in [1..Len(t) -> 1..Len(t)] :
        /\ \A i, j \in 1..Len(t) : i # j => p[i] # p[j]
        /\ \A i \in 1..(Len(t) - 1) : t[p[i]].ts.key >= t[p[i + 1]].ts.key }

\* LIMIT ?: a negative limit is no limit.
Fetched(t, p, lim) ==
    LET n == IF lim < 0 \/ lim > Len(t) THEN Len(t) ELSE lim
    IN [i \in 1..n |-> t[p[i]]]

\* The newest row lasts until now, the others until the next newer row
\* (lines 243-247); minutes.
Duration_AlwaysNow(rs, i, t) == t - rs[i].ts.key

Duration(rs, i, t) ==
    IF i = 1 THEN t - rs[i].ts.key
    ELSE rs[i - 1].ts.key - rs[i].ts.key

Entry(r, d) == <<r.app, r.mode, d>>

\* Lines 241-246 on focus_log: strptime of a value that is no text raises a
\* TypeError, which the handler of line 251 does not catch.  The row's own
\* timestamp is parsed first, the newer row's second.
RowRaises(rs, i, sch) ==
    /\ sch = "focus_log"
    /\ \/ rs[i].ts.kind = "null"
       \/ i > 1 /\ rs[i].ts.kind = "ok" /\ rs[i - 1].ts.kind = "null"

\* Line 249 as duration >= 0.
RowSessions_KeepsZero(rs, i, t) ==
    IF rs[i].ts.kind # "ok" \/ (i > 1 /\ rs[i - 1].ts.kind # "ok")
    THEN <<Entry(rs[i], 0)>>
    ELSE IF Duration(rs, i, t) >= 0 THEN <<Entry(rs[i], Duration(rs, i, t))>>
    ELSE <<>>

\* Lines 239-252 (265-287) for a row that does not raise past its handler: a
\* failure on the row's own timestamp or on the newer row's gives the row with
\* 0.0; otherwise the row is kept when its duration is positive.
RowSessions(rs, i, t) ==
    IF rs[i].ts.kind # "ok" \/ (i > 1 /\ rs[i - 1].ts.kind # "ok")
    THEN <<Entry(rs[i], 0)>>
    ELSE IF Duration(rs, i, t) > 0 THEN <<Entry(rs[i], Duration(rs, i, t))>>
    ELSE <<>>

\* The loop from row i on; it ends at a row that raises, with what was
\* appended before (the handler of line 290 then returns that).
RECURSIVE SessionsFrom(_, _, _, _)
SessionsFrom(rs, i, t, sch) ==
    IF i > Len(rs) \/ RowRaises(rs, i, sch) THEN <<>>
    ELSE RowSessions(rs, i, t) \o SessionsFrom(rs, i + 1, t, sch)

\* How the first execute (228-233) and the second (255-260) end.
FirstQuery(sch, flt) ==
    IF flt = "first_operational" THEN "operational"
    ELSE IF flt = "first_database" THEN "database"
    ELSE IF sch = "focus_log" THEN "rows" ELSE "no_table"

SecondQuery(sch, flt) ==
    IF flt = "second" THEN "operational"
    ELSE IF sch = "focus_sessions" THEN "rows" ELSE "no_table"

\* Line 253: except sqlite3.OperationalError.
FallsBack(q1) == q1 \in {"no_table", "operational"}

\* get_recent_sessions(lim) with the query handing the records back in order
\* p: [sessions, rows, second].  Every failure ends in the handler of line
\* 290, which prints and lets line 294 return the sessions gathered so far.
Recent(p, lim) ==
    LET q1 == FirstQuery(schema, fault)
        q2 == SecondQuery(schema, fault)
        rs == Fetched(table, p, lim)
    IN IF fault = "connect" THEN [sessions |-> <<>>, rows |-> <<>>, second |-> FALSE]
       ELSE IF q1 = "rows"
            THEN [sessions |-> SessionsFrom(rs, 1, now, "focus_log"), rows |-> rs, second |-> FALSE]
       ELSE IF ~FallsBack(q1) THEN [sessions |-> <<>>, rows |-> <<>>, second |-> FALSE]
       ELSE IF q2 = "rows"
            THEN [sessions |-> SessionsFrom(rs, 1, now, "focus_sessions"), rows |-> rs, second |-> TRUE]
       ELSE [sessions |-> <<>>, rows |-> <<>>, second |-> TRUE]

GetRecentSessions ==
    /\ qpc = "call"
    /\ \E p \in Orders(table) :
         LET r == Recent(p, limit)
         IN /\ result' = r.sessions
            /\ rows' = r.rows
            /\ qnote' = [second |-> r.second, raised |-> FALSE]
    /\ qpc' = "done"
    /\ UNCHANGED <<cvars, tvars, svars, evars, cpc, ret, lvars, rvars, pvars,
                   table, now, limit, schema, fault, stats>>

\* get_session_stats (296-313).
RECURSIVE TotalTime(_)
TotalTime(ss) == IF ss = <<>> THEN 0 ELSE Head(ss)[3] + TotalTime(Tail(ss))

CountMode(ss, m) == Cardinality({i \in 1..Len(ss) : ss[i][2] = m})

\* Line 306 comparing with the category name policy_engine uses.
SessionStats_CountsDistracting(ss) ==
    [total_sessions |-> Len(ss),
     total_time_minutes |-> TotalTime(ss),
     productive_count |-> CountMode(ss, "productive"),
     distracted_count |-> CountMode(ss, "distracting")]

SessionStats(ss) ==
    [total_sessions |-> Len(ss),
     total_time_minutes |-> TotalTime(ss),
     productive_count |-> CountMode(ss, "productive"),
     distracted_count |-> CountMode(ss, "distracted")]

GetSessionStats ==
    /\ qpc = "call"
    /\ \E p \in Orders(table) :
         LET r == Recent(p, StatsLimit)
         IN /\ result' = r.sessions
            /\ rows' = r.rows
            /\ qnote' = [second |-> r.second, raised |-> FALSE]
            /\ stats' = SessionStats(r.sessions)
    /\ qpc' = "stats"
    /\ UNCHANGED <<cvars, tvars, svars, evars, cpc, ret, lvars, rvars, pvars,
                   table, now, limit, schema, fault>>

QueryNext == GetRecentSessions \/ GetSessionStats

SpecQuery == QueryInit /\ [][QueryNext]_vars

\* ------------------------------ SpecPolicy: check_app_category to the statistics
\* An application is classified against a configuration, the outcome is
\* stored by data_logger.log_session, and get_session_stats counts it.  A
\* configuration is what yaml.safe_load gave: has names the keys it holds.
Apps == {"A", "B", "C"}
PolicyKeys == {"productive_apps", "distracting_apps"}
Configs == [productive_apps : SUBSET Apps, distracting_apps : SUBSET Apps,
            has : SUBSET PolicyKeys]

PolicyInit ==
    /\ ControllerInit /\ LogIdle /\ RaceIdle
    /\ papp \in Apps
    /\ config \in Configs
    /\ \A k \in PolicyKeys : k \notin config.has => config[k] = {}
    /\ category = "none" /\ ppc = "call"
    /\ table = <<>> /\ now = MaxTime /\ limit = 0 /\ schema = "focus_sessions"
    /\ qpc = "none" /\ result = <<>>
    /\ fault = "none" /\ rows = <<>> /\ qnote = NoQuery /\ stats = NoStats

\* policy_engine.py 7-12; config['...'] of a key the configuration lacks
\* raises KeyError.
check_app_category(app_name, cfg) ==
    IF "productive_apps" \notin cfg.has THEN "KeyError"
    ELSE IF app_name \in cfg.productive_apps THEN "productive"
    ELSE IF "distracting_apps" \notin cfg.has THEN "KeyError"
    ELSE IF app_name \in cfg.distracting_apps THEN "distracting"
    ELSE "neutral"

PolicyFrame == UNCHANGED <<cvars, tvars, svars, evars, cpc, ret, lvars, rvars>>

Classify ==
    /\ ppc = "call"
    /\ LET c == check_app_category(papp, config)
       IN IF c = "KeyError" THEN ppc' = "raised" /\ UNCHANGED category
          ELSE ppc' = "classified" /\ category' = c
    /\ UNCHANGED <<papp, config, qvars>>
    /\ PolicyFrame

\* data_logger.py 15-21: the record is inserted with timestamp datetime.now(),
\* which sqlite3 stores as text with the microseconds, unless they are 0.
LogSession ==
    /\ ppc = "classified"
    /\ ppc' = "logged"
    /\ \E k \in {"ok", "bad"} :
         table' = Append(table, [app |-> papp, mode |-> category,
                                 ts |-> [key |-> 1, kind |-> k]])
    /\ qpc' = "call"
    /\ UNCHANGED <<papp, config, category, now, limit, schema, result, fault, rows,
                   qnote, stats>>
    /\ PolicyFrame

PolicyNext == Classify \/ LogSession \/ GetSessionStats

SpecPolicy == PolicyInit /\ [][PolicyNext]_vars

\* ====================================================================== claims
AliveThreads == {t \in Threads : Alive(t)}

Accepted == stop_note.cancel # "none"

\* C1: a start_focus() issued while the controller is Running returns False and
\* leaves the controller, the threads, loops and tasks, the relays and the log
\* queue, and the environment as they were; no thread is created.
C1_StartWhileRunningRejected ==
    [][(cpc = "idle" /\ is_running /\ ret'.op = "start")
        => (ret' = Returned("start", FALSE) /\ UNCHANGED <<cvars, tvars, svars, evars>>)]_vars

C1_Witness ==
    /\ cpc = "returned" /\ ret = Returned("start", FALSE)
    /\ is_running /\ Alive(daemon_thread) /\ log_queue # <<>>

\* C2: in every reachable state at most one background thread created by
\* start_focus() is alive.
C2_AtMostOneThreadAlive == Cardinality(AliveThreads) <= 1

\* C3: when stop_focus() has returned True, get_status() read next is "Idle" and
\* is_running is False, whether or not the background thread has exited.
C3_IdleAfterStop ==
    (cpc = "returned" /\ ret.op = "stop" /\ ret.val) => (get_status = "Idle" /\ ~is_running)

C3_Witness ==
    /\ cpc = "returned" /\ ret = Returned("stop", TRUE)
    /\ Alive(daemon_thread)

\* C4: a stop_focus() made while Running returns True and has invoked the
\* cleanup once: unblock_websites once and, after it, apply_focus_policies once
\* (not reached only when unblock_websites itself raised); a stop_focus() that
\* is under way has never invoked either a second time.  This includes the
\* task being over already and the scheduling of the cancellation raising.
C4_CleanupOnce ==
    /\ unblock_n <= 1 /\ apply_n <= 1
    /\ (cpc = "stop_join" \/ (cpc = "returned" /\ ret.op = "stop" /\ Accepted))
          => /\ unblock_n = 1
             /\ apply_n = (IF stop_note.cleanup = "unblock_raised" THEN 0 ELSE 1)
    /\ (cpc = "returned" /\ ret.op = "stop" /\ Accepted) => (ret.val /\ ~ret.exc)

C4_Witness ==
    /\ cpc = "returned" /\ ret = Returned("stop", TRUE)
    /\ stop_note.cancel = "raised" /\ stop_note.cleanup = "ok"
    /\ unblock_n = 1 /\ apply_n = 1
    /\ tstate[daemon_thread] = "cancelled"

\* C5: once an accepted stop_focus() is past its cancellation step, a cancel
\* request for the task of the run it stops has been handed to a loop (or has
\* reached the task) whenever that run's thread is alive with its task not over.
CancelRequested(k) ==
    \/ tstate[k] \in {"cancelling", "cancelled"}
    \/ \E l \in Threads : k \in lcalls[l]

C5_StopSignalsCancel ==
    (/\ cpc \in {"stop_cleanup", "stop_join"}
     /\ tpc[daemon_thread] \in {"spawned", "setup", "created", "running"}
     /\ tstate[daemon_thread] \in {"none", "pending"})
        => CancelRequested(daemon_thread)

\* C6: stop_focus() called while Idle returns False and changes nothing: no
\* cancellation is scheduled, the stop event is not set, the cleanup is not
\* invoked, no join is attempted, is_running and current_status stay.
C6_StopWhileIdleNoOp ==
    [][(cpc = "idle" /\ ~is_running /\ (ret'.op = "stop" \/ cpc' \notin {"idle", "returned"}))
        => (/\ cpc' = "returned"
            /\ ret' = Returned("stop", FALSE)
            /\ UNCHANGED <<cvars, tvars, svars, evars>>)]_vars

C6_Witness ==
    /\ cpc = "returned" /\ ret = Returned("stop", FALSE)
    /\ ~is_running /\ Alive(daemon_thread) /\ HandlesSet
    /\ tstate[daemon_thread] = "pending"
    /\ \A l \in Threads : lcalls[l] = {}

\* C7: start_focus() and stop_focus() hand their caller a boolean, never an
\* exception, whichever of the thread launch, the scheduling of the
\* cancellation or the cleanup raised; a start_focus() whose launch failed
\* returns False with the controller Idle.
LaunchFailedNow ==
    cpc = "returned" /\ ret.op = "start" /\ daemon_thread # 0 /\ tpc[daemon_thread] = "unstarted"

C7_NoExceptionEscapes ==
    /\ ~ret.exc
    /\ ret.val \in BOOLEAN
    /\ LaunchFailedNow => (~ret.val /\ ~is_running /\ current_status = "Idle")

C7_Witness == LaunchFailedNow /\ ~ret.val /\ ~is_running

\* What was given to a relay, read as a whole: its segments ended by a newline,
\* and those ended by a flush when they are not empty; strip says whether the
\* trailing carriage returns of a segment are dropped.
RECURSIVE LinesOf(_, _, _)
LinesOf(s, cur, strip) ==
    IF s = <<>> THEN <<>>
    ELSE LET c == Head(s)
             line == IF strip THEN RStripCR(cur) ELSE cur
         IN IF c = LF THEN <<line>> \o LinesOf(Tail(s), <<>>, strip)
            ELSE IF c = FL
                 THEN (IF cur = <<>> THEN <<>> ELSE <<line>>) \o LinesOf(Tail(s), <<>>, strip)
                 ELSE LinesOf(Tail(s), Append(cur, c), strip)

\* The text given to a relay after the last newline (and the last flush).
RECURSIVE Trailing(_)
Trailing(s) ==
    IF s = <<>> \/ s[Len(s)] \in {LF, FL} THEN <<>>
    ELSE Append(Trailing(SubSeq(s, 1, Len(s) - 1)), s[Len(s)])

RECURSIVE TextsOf(_, _)
TextsOf(q, o) ==
    IF q = <<>> THEN <<>>
    ELSE (IF Head(q)[1] = o THEN <<Head(q)[2]>> ELSE <<>>) \o TextsOf(Tail(q), o)

IsPrefix(p, q) == Len(p) <= Len(q) /\ SubSeq(q, 1, Len(p)) = p

NeverFlushed(o) == \A i \in 1..Len(sent[o]) : sent[o][i] # FL

\* C8 as stated: for each origin the queue's lines of that origin are the
\* newline-terminated segments of the concatenated writes, in order.
C8_LinesAreSegments ==
    \A o \in Origins : NeverFlushed(o) => TextsOf(log_queue, o) = LinesOf(sent[o], <<>>, FALSE)

\* C8 as amended: for each origin the queue's lines of that origin are, in
\* order, the newline-terminated segments of the concatenated writes, each
\* without its trailing carriage returns (a flush adds the pending text as
\* one more line); and the queue only ever grows at its tail, so the lines of
\* a later write never come before those of an earlier one.
C8_LinesInWriteOrder ==
    /\ [](\A o \in Origins : TextsOf(log_queue, o) = LinesOf(sent[o], <<>>, TRUE))
    /\ [][IsPrefix(log_queue, log_queue')]_vars

C8_Witness ==
    /\ nops = MaxOps
    /\ Len(log_queue) >= 3
    /\ log_queue[1] = <<"stdout", <<"a">>>>
    /\ log_queue[2][1] = "stderr"
    /\ \E i \in 1..Len(sent["stdout"]) : sent["stdout"][i] = CR
    /\ NeverFlushed("stdout") /\ NeverFlushed("stderr")

FlushStep == lastop'.kind = "flush" /\ nops' = nops + 1

FlushedBuffer == buf'[<<1, lastop'.o>>]

\* C9 as stated: a flush() with trailing content enqueues one more line, equal
\* to that content, and leaves the buffer empty; with none it enqueues nothing.
C9_FlushEnqueuesTrailing ==
    [][FlushStep =>
        LET tr == Trailing(sent[lastop'.o])
        IN /\ FlushedBuffer = <<>>
           /\ log_queue' = IF tr # <<>> THEN Append(log_queue, <<lastop'.o, tr>>)
                           ELSE log_queue]_vars

\* C9 as amended: a flush() with trailing content enqueues one more line, that
\* content without its trailing carriage returns, and leaves the buffer empty;
\* with none it enqueues nothing.
C9_FlushEnqueuesStripped ==
    [][FlushStep =>
        LET tr == Trailing(sent[lastop'.o])
        IN /\ FlushedBuffer = <<>>
           /\ log_queue' = IF tr # <<>> THEN Append(log_queue, <<lastop'.o, RStripCR(tr)>>)
                           ELSE log_queue]_vars

C9_Witness ==
    /\ lastop.kind = "flush"
    /\ LET s == sent[lastop.o]
       IN /\ Len(s) >= 3
          /\ s[Len(s)] = FL /\ s[Len(s) - 1] = CR /\ s[Len(s) - 2] = "a"
    /\ log_queue # <<>>
    /\ log_queue[Len(log_queue)] = <<lastop.o, <<"a">>>>
    /\ buf[<<1, lastop.o>>] = <<>>

\* C10: on records whose timestamps all parse, strictly increase and lie
\* before now, get_recent_sessions(limit), limit >= 0, returns the min(limit, N)
\* newest records, newest first, each with its own subject and category; the
\* newest lasts from its timestamp to now, every other one from its own
\* timestamp to that of the next newer record.
WellFormed ==
    /\ fault = "none" /\ schema # "none"
    /\ \A i \in 1..Len(table) : table[i].ts.kind = "ok" /\ table[i].ts.key < now
    /\ \A i \in 1..(Len(table) - 1) : table[i].ts.key < table[i + 1].ts.key

Min(a, b) == IF a < b THEN a ELSE b

ExpectedRecent ==
    LET n == Len(table)
    IN [j \in 1..Min(limit, n) |->
            <<table[n + 1 - j].app, table[n + 1 - j].mode,
              (IF j = 1 THEN now ELSE table[n + 2 - j].ts.key) - table[n + 1 - j].ts.key>>]

Readable == fault = "none" /\ schema # "none"

Computed(i) == rows[i].ts.kind = "ok" /\ (i = 1 \/ rows[i - 1].ts.kind = "ok")

Lasts(i) == (IF i = 1 THEN now ELSE rows[i - 1].ts.key) - rows[i].ts.key

RECURSIVE PositiveFrom(_)
PositiveFrom(i) ==
    IF i > Len(rows) THEN <<>>
    ELSE (IF Computed(i) /\ Lasts(i) > 0
          THEN <<<<rows[i].app, rows[i].mode, Lasts(i)>>>> ELSE <<>>) \o PositiveFrom(i + 1)

IsPositive(e) == e[3] > 0

C11_NonPositiveExcluded ==
    (qpc = "done" /\ Readable) =>
        /\ \A i \in 1..Len(rows) :
             (Computed(i) /\ Lasts(i) <= 0) =>
                 \A j \in 1..Len(result) : result[j][1] # rows[i].app
        /\ SelectSeq(result, IsPositive) = PositiveFrom(1)
        /\ ~qnote.raised

C11_Witness ==
    /\ qpc = "done" /\ Readable /\ Len(rows) = 3
    /\ \A i \in 1..3 : rows[i].ts.kind = "ok"
    /\ rows[1].ts.key = rows[2].ts.key
    /\ Lasts(1) > 0 /\ Lasts(3) > 0
    /\ Len(result) = 2
    /\ result[1][1] = rows[1].app /\ result[2][1] = rows[3].app

\* C12: of the rows fetched, each one whose own timestamp fails to parse is
\* in the returned list with duration 0.0, the list keeps the order of the
\* rows, and a row whose own timestamp parses is never given the 0.0 of a
\* failure: it is in the list with a positive duration or not at all.
RowOf(a) == CHOOSE i \in 1..Len(rows) : rows[i].app = a

C12_ParseFailureIsLocal ==
    (qpc = "done" /\ Readable) =>
        /\ \A i \in 1..Len(rows) :
             rows[i].ts.kind # "ok" =>
                 \E j \in 1..Len(result) : result[j] = <<rows[i].app, rows[i].mode, 0>>
        /\ \A j \in 1..Len(result) :
             /\ \E i \in 1..Len(rows) : rows[i].app = result[j][1]
             /\ result[j][3] = 0 => rows[RowOf(result[j][1])].ts.kind # "ok"
        /\ \A j, k \in 1..Len(result) :
             j < k => RowOf(result[j][1]) < RowOf(result[k][1])

\* C13: get_recent_sessions makes the second query only when the first one
\* failed for a missing table, and a failure of the connection, of the first
\* query for any other reason, or of the second query reaches the caller as
\* an error.
PersistenceFailed ==
    \/ fault = "connect"
    \/ FirstQuery(schema, fault) \in {"operational", "database"}
    \/ qnote.second /\ SecondQuery(schema, fault) # "rows"

C13_OnlyMissingTableFallsBack ==
    (qpc = "done") =>
        /\ qnote.second => (fault # "connect" /\ FirstQuery(schema, fault) = "no_table")
        /\ PersistenceFailed => qnote.raised

\* C14 as claimed: get_session_stats counts the stored records:
\* total_sessions is their number, productive_count and distracted_count the
\* numbers of stored records of either category.
Stored(m) == Cardinality({i \in 1..Len(table) : table[i].mode = m})

C14_StatsOverStoredRecords ==
    (qpc = "stats" /\ Readable) =>
        /\ stats.total_sessions = Len(table)
        /\ stats.productive_count = Stored("productive")
        /\ stats.distracted_count = Stored("distracted")

\* C14 as amended: get_session_stats aggregates the list that
\* get_recent_sessions(1000) returns: total_sessions is its length,
\* total_time_minutes the sum of its durations, productive_count and
\* distracted_count the numbers of its entries of either category.  When every
\* stored record has a positive duration these are the number of stored
\* records, the time from the oldest record to now, and the numbers of stored
\* records of either category.
Listed(m) == {j \in 1..Len(result) : result[j][2] = m}

RECURSIVE SumTo(_)
SumTo(n) == IF n = 0 THEN 0 ELSE SumTo(n - 1) + result[n][3]

C14_StatsOverReturnedList ==
    (qpc = "stats") =>
        /\ stats.total_sessions = Len(result)
        /\ stats.total_time_minutes = SumTo(Len(result))
        /\ stats.productive_count = Cardinality(Listed("productive"))
        /\ stats.distracted_count = Cardinality(Listed("distracted"))
        /\ WellFormed =>
             /\ stats.total_sessions = Len(table)
             /\ stats.total_time_minutes = (IF table = <<>> THEN 0 ELSE now - table[1].ts.key)
             /\ stats.productive_count = Stored("productive")
             /\ stats.distracted_count = Stored("distracted")

C14_Witness ==
    /\ qpc = "stats" /\ WellFormed /\ Len(table) = 3
    /\ table[1].mode = "productive" /\ table[2].mode = "distracted"
    /\ table[3].mode = "productive"
    /\ stats.productive_count = 2 /\ stats.distracted_count = 1
    /\ stats.total_sessions = 3
    /\ stats.total_time_minutes > 3

\* C15: cancel() is called on a task only by the thread that owns the task's
\* loop (loop l is the one thread l made at line 112): no step of the caller
\* changes a task's state, and a task goes from pending to cancelling or
\* cancelled only in a step of its own loop's thread, be it that thread's
\* completion handler or a callback its running loop takes.
CancelledNow(k) == tstate[k] = "pending" /\ tstate'[k] \in {"cancelling", "cancelled"}

HandlerStep(t) == tpc[t] = "finally" /\ tpc'[t] # "finally"

CallbackStep(l) == tpc' = tpc /\ lcalls'[l] # lcalls[l] /\ lstate[l] = "running"

C15_CancelOnlyOnOwnThread ==
    [][/\ cpc' # cpc => tstate' = tstate
       /\ \A k \in Threads :
            CancelledNow(k) =>
                \/ \E t \in Threads : HandlerStep(t) /\ tloop[k] = t
                \/ \E l \in Threads : CallbackStep(l) /\ lrunner[l] = l /\ tloop[k] = l]_vars

\* C16: is_running and current_status change only in steps of start_focus()
\* and stop_focus(): no step of a background thread, its loop or its task
\* changes them, and Running ends only in a step of stop_focus().  The status
\* is "Focus Active" exactly when is_running.
CallerStep == cpc' # cpc

C16_StatusOnlyByStartStop ==
    [][/\ ~CallerStep => UNCHANGED <<is_running, current_status>>
       /\ (is_running /\ ~is_running') => cpc = "stop_cleanup"
       /\ is_running' <=> get_status' = "Focus Active"]_vars

C16_Witness ==
    /\ cpc = "idle" /\ is_running /\ get_status = "Focus Active"
    /\ tpc[daemon_thread] = "dead"
    /\ tstate[daemon_thread] = "failed"
    /\ daemon_loop = 0 /\ daemon_task = 0

\* C17: a background thread that has exited has been through its whole
\* completion handler: its relays are no longer installed, no task is left
\* unsettled on its loop, and its loop is closed.
Exited(t) == tpc[t] \in {"dead", "crashed"}

C17_HandlerRunsToItsEnd ==
    \A t \in Threads :
        Exited(t) =>
            /\ sys_stdout # t
            /\ Unsettled(t) = {}
            /\ lstate[t] = "closed"

\* C18: an accepted stop_focus() can always go on to its return, whatever
\* the background thread and its task do: each of its steps is enabled as
\* soon as the one before is done.  The controller is Idle when the join
\* begins, and the step that ends the join returns True and leaves every
\* thread, loop and task as it was.
C18_StopAlwaysReturns ==
    /\ [](/\ cpc = "stop_cancel" => ENABLED StopCancel
          /\ cpc = "stop_cleanup" => ENABLED StopCleanup
          /\ cpc = "stop_join" => (ENABLED StopJoin /\ ~is_running /\ get_status = "Idle"))
    /\ [][(cpc = "stop_join" /\ cpc' # cpc) =>
            /\ cpc' = "returned" /\ ret' = Returned("stop", TRUE)
            /\ UNCHANGED <<cvars, tvars>>]_vars

C18_Witness ==
    /\ cpc = "returned" /\ ret = Returned("stop", TRUE)
    /\ stop_note.cancel = "scheduled"
    /\ ~is_running /\ get_status = "Idle"
    /\ tpc[daemon_thread] = "running"
    /\ tstate[daemon_thread] = "cancelling"

\* C19: a stop_focus() made while Running whose cleanup raised (in
\* unblock_websites or in apply_focus_policies) returns False.
CleanupRaised == stop_note.cleanup \in {"unblock_raised", "apply_raised"}

C19_CleanupFailureReported ==
    (cpc = "returned" /\ ret.op = "stop" /\ Accepted /\ CleanupRaised) => ret.val = FALSE

\* C20: once start_focus() has returned True, and until the thread it started
\* has run its first line or the caller has made another call, nothing is in
\* the queue for the consumer: whatever were there would be of an earlier run.
FreshRun ==
    /\ is_running
    /\ tpc[daemon_thread] = "spawned"
    /\ \/ cpc = "idle"
       \/ cpc = "returned" /\ ret = Returned("start", TRUE)

C20_NoStaleLines == FreshRun => log_queue = <<>>

\* C21 as claimed: the bodies of write() and flush() never overlap, and
\* whenever neither call is under way the characters written (the newlines,
\* which end the lines, apart) are, each once and in the order written, in
\* the queue's lines followed by the buffer.
InWrite == wpc \in {"forward", "store", "test", "split", "assign", "put"}

InFlush == fpc \in {"test", "put", "clear"}

Quiet == wpc = "idle" /\ fpc = "idle"

RECURSIVE Joined(_)
Joined(ts) == IF ts = <<>> THEN <<>> ELSE Head(ts) \o Joined(Tail(ts))

IsChar(c) == c \notin {LF, FL}

C21_EveryCharacterOnce ==
    /\ ~(InWrite /\ InFlush)
    /\ Quiet => Joined(TextsOf(log_queue, "stdout")) \o buf[Relay]
                    = SelectSeq(sent["stdout"], IsChar)

\* C21 as amended: the bodies of write() and flush() never overlap, and
\* whenever neither call is under way the queue's lines are, in order, the
\* segments of the written text that a newline or a flush ended, each without
\* its trailing carriage returns, and the buffer is the text written since:
\* apart from the newlines and those carriage returns every written character
\* is there once, in the order written.
C21_WriteFlushExclusive ==
    /\ ~(InWrite /\ InFlush)
    /\ Quiet =>
         /\ TextsOf(log_queue, "stdout") = LinesOf(sent["stdout"], <<>>, TRUE)
         /\ buf[Relay] = Trailing(sent["stdout"])

C21_Witness ==
    /\ wpc = "put" /\ fpc = "acquire" /\ lock = "w"
    /\ buf[Relay] # <<>>
    /\ log_queue # <<>>
    /\ wloc = <<"a">>

\* C22: what check_app_category returns is one of productive, distracted,
\* neutral, and get_session_stats counts the stored record of an application
\* the configuration lists as distracting as a distracted one.
Categories == {"productive", "distracted", "neutral"}

C22_CategoryInEnum ==
    /\ ppc \in {"classified", "logged"} => category \in Categories
    /\ (qpc = "stats" /\ ppc = "logged" /\ category \notin {"productive", "neutral"}) =>
           stats.distracted_count = stats.total_sessions

\* C23: whenever no background thread is alive, sys.stdout and sys.stderr are
\* the process's own streams, not a relay.
C23_StreamsRestored == AliveThreads = {} => sys_stdout = 0

\* C24: when a stop_focus() that handed the cancellation to the loop and
\* whose cleanup went through has returned True, and the thread it stopped
\* has exited, the environment is restored.
C24_RestoredAfterStop ==
    (/\ cpc = "returned" /\ ret = Returned("stop", TRUE)
     /\ stop_note.cancel = "scheduled" /\ stop_note.cleanup = "ok"
     /\ AliveThreads = {}) => ~blocked

\* C25: whenever the caller is between two operations (in its event loop, or
\* in the handler a call has returned to), is_running holds exactly when
\* current_status is "Focus Active", and fails exactly when it is "Idle".
Between == cpc \in {"idle", "returned"}

C25_FlagAndStatusAgree ==
    Between =>
        /\ is_running <=> current_status = "Focus Active"
        /\ ~is_running <=> current_status = "Idle"

C25_Witness ==
    /\ cpc = "returned" /\ ret = Returned("stop", TRUE)
    /\ stop_note.cleanup = "unblock_raised" /\ stop_note.cancel = "raised"
    /\ ~is_running /\ current_status = "Idle"
    /\ \E t \in Threads : tpc[t] = "unstarted"

====
